---------------------------- MODULE Spec2Model ----------------------------
(***************************************************************************)
(* A model of the multi-PDF question answering service:                    *)
(*   - Ingestion.py      ingest_pdf_bytes: a PDF becomes summarised units  *)
(*   - retrieval.py      PDFRAGRetriever.retrieve / hybrid_retrieve        *)
(*   - retrieval_api.py  the /upload and /ask handlers                     *)
(* Python strings are sequences of one-character strings, so that lower(), *)
(* strip(), endswith(), the `in` substring test and f-string formatting    *)
(* are computed rather than assumed.  A Python value that may be None is   *)
(* None == <<>> or Some(v) == <<v>>.                                       *)
(* Requests are served one at a time.  The vector database, the embedding  *)
(* service and the LLM are the environment: a similarity search returns    *)
(* some ranking of the stored points or raises, an LLM call returns some   *)
(* text or raises.                                                         *)
(***************************************************************************)
EXTENDS Integers, Sequences, FiniteSets, TLC

VARIABLES
    collection_exists,  \* the Qdrant collection "pdf_multimodal_summaries" exists
    collection,         \* its points, in insertion order: Seq of Document
    retriever,          \* retrieval_api.retriever: "None" or "set"
    pc,                 \* position of the request (or call) being served
    files,              \* /upload: the request's files still to be ingested
    total_chunks,       \* /upload: total_chunks
    errors,             \* /upload: errors
    query,              \* /ask or hybrid_retrieve: the query text
    top_k,              \* hybrid_retrieve: top_k
    semantic_results,   \* hybrid_retrieve: semantic_results
    potential_docs,     \* hybrid_retrieve: potential_docs (None until fetched)
    scan_i,             \* hybrid_retrieve: candidates of potential_docs examined
    keyword_results,    \* hybrid_retrieve: keyword_results
    seen,               \* hybrid_retrieve: seen
    hits,               \* what hybrid_retrieve returned (None: nothing yet)
    response,           \* the last response sent
    upload_completed,   \* history: some /upload request ran to completion
    upload_files,       \* history: the files of the most recent /upload
    ingested,           \* history: the documents ingest_pdf_bytes added, per
                        \*   file of the most recent /upload
    env_calls,          \* history: retrieval and LLM calls made by the
                        \*   request being served
    split_text,         \* splitter run: the text being split
    split_start,        \* splitter run: start offset of the current chunk
    split_chunks,       \* splitter run: the chunks produced so far
    ingest_file,        \* ingest_pdf_bytes: the file behind pdf_bytes (None: no call)
    temp_path_exists,   \* ingest_pdf_bytes: the file at temp_path exists
    summaries,          \* ingest_pdf_bytes: summaries
    ingest_errors,      \* ingest_pdf_bytes: errors
    stage,              \* ingest_pdf_bytes: "page", "element" or "image"
    stage_units,        \* ingest_pdf_bytes: the units of the stage still to be
                        \*   summarised
    ocr_raises,         \* ingest_pdf_bytes: pytesseract raises on the image
                        \*   after those of stage_units
    ingest_result,      \* ingest_pdf_bytes: the returned (count, errors), or None
    loader_raised,      \* history: the outer except of ingest_pdf_bytes ran
    rendered            \* history: the page images advanced_extract_images
                        \*   returned (None: not called)

vars == <<collection_exists, collection, retriever, pc, files, total_chunks,
          errors, query, top_k, semantic_results, potential_docs, scan_i,
          keyword_results, seen, hits, response, upload_completed, upload_files,
          ingested, env_calls, split_text, split_start, split_chunks,
          ingest_file, temp_path_exists, summaries, ingest_errors, stage,
          stage_units, ocr_raises, ingest_result, loader_raised, rendered>>

-----------------------------------------------------------------------------
(* Python values                                                           *)

None == <<>>

Some(v) == <<v>>

\* bool(v) of an optional string: None and "" are falsy
TruthyStr(v) == v # None /\ Len(v[1]) > 0

\* bool(v) of an optional integer: None and 0 are falsy
TruthyInt(v) == v # None /\ v[1] # 0

\* dict.get(key): None when the key is absent
MdGet(md, key) == IF key \in DOMAIN md THEN md[key] ELSE None

\* dict.get(key, default)
MdGetD(md, key, default) == IF key \in DOMAIN md THEN md[key] ELSE default

-----------------------------------------------------------------------------
(* Strings                                                                 *)

Lowercase ==
    [c \in {"A", "B", "C", "D", "F", "P", "T", "X"} |->
        CASE c = "A" -> "a" [] c = "B" -> "b" [] c = "C" -> "c"
          [] c = "D" -> "d" [] c = "F" -> "f" [] c = "P" -> "p"
          [] c = "T" -> "t" [] c = "X" -> "x"]

LowerChar(c) == IF c \in DOMAIN Lowercase THEN Lowercase[c] ELSE c

\* str.lower()
Lower(s) == IF Len(s) = 0 THEN <<>> ELSE [i \in 1..Len(s) |-> LowerChar(s[i])]

\* needle in hay
Contains(needle, hay) ==
    \E i \in 0..(Len(hay) - Len(needle)) :
        SubSeq(hay, i + 1, i + Len(needle)) = needle

\* s.endswith(suffix)
EndsWith(s, suffix) ==
    /\ Len(s) >= Len(suffix)
    /\ SubSeq(s, Len(s) - Len(suffix) + 1, Len(s)) = suffix

Whitespace == {" ", "\n", "\t"}

RECURSIVE LStrip(_)
LStrip(s) ==
    IF Len(s) > 0 /\ s[1] \in Whitespace THEN LStrip(Tail(s)) ELSE s

RECURSIVE RStrip(_)
RStrip(s) ==
    IF Len(s) > 0 /\ s[Len(s)] \in Whitespace
    THEN RStrip(SubSeq(s, 1, Len(s) - 1)) ELSE s

\* str.strip()
Strip(s) == RStrip(LStrip(s))

Digit(d) ==
    CASE d = 0 -> "0" [] d = 1 -> "1" [] d = 2 -> "2" [] d = 3 -> "3"
      [] d = 4 -> "4" [] d = 5 -> "5" [] d = 6 -> "6" [] d = 7 -> "7"
      [] d = 8 -> "8" [] d = 9 -> "9"

RECURSIVE NatToStr(_)
NatToStr(n) ==
    IF n < 10 THEN <<Digit(n)>> ELSE NatToStr(n \div 10) \o <<Digit(n % 10)>>

\* str(n) of an integer, as an f-string formats it
IntToStr(n) == IF n < 0 THEN <<"-">> \o NatToStr(0 - n) ELSE NatToStr(n)

-----------------------------------------------------------------------------
(* The uploaded files.  A file is what the loaders extract from its bytes: *)
(* the text of each page (PyPDFLoader), the elements (UnstructuredPDF-     *)
(* Loader, mode="elements") and the OCR text of each rendered page image   *)
(* (fitz + pytesseract).                                                   *)

FileA ==
    [filename |-> <<"a", ".", "p", "d", "f">>,
     pages    |-> << <<" ", "A", "b">> >>,
     elements |-> << [page_content |-> <<"h">>,
                      metadata |-> [category |-> "Title",
                                    page_number |-> Some(1)]] >>,
     ocr      |-> << <<"A", "B", "\n">> >>]

FileB ==
    [filename |-> <<"B", ".", "P", "D", "F">>,
     pages    |-> << <<" ", "\n">> >>,
     elements |-> << [page_content |-> <<"a", "b", " ", "c">>,
                      metadata |-> [element_type |-> "NarrativeText"]],
                     [page_content |-> <<"z">>,
                      metadata |-> [element_type |-> "Table",
                                    page_number |-> Some(1)]] >>,
     ocr      |-> << <<" ">> >>]

FileN ==
    [filename |-> <<"n", ".", "t", "x", "t">>,
     pages    |-> << <<"z">> >>,
     elements |-> << >>,
     ocr      |-> << <<>> >>]

Files == {FileA, FileB, FileN}

\* what an LLM call may return (resp.content)
LLMOutputs == { <<"z", " ">> }

\* str(e) of an exception raised by a loader, the LLM or the database
ExcText == <<"e", "r", "r">>

-----------------------------------------------------------------------------
(* Ingestion.py                                                            *)

chunk_size == 800

\* an overlap as large as the chunk
chunk_overlap_full == chunk_size

chunk_overlap == 100

\* where the chunk after the one starting at offset `start` starts: the
\* splitter keeps chunk_overlap characters of the previous chunk
NextChunkStart(start) == start + chunk_size - chunk_overlap

\* splitter.split_text(text) for a text without separators: windows of at
\* most chunk_size characters, consecutive windows sharing chunk_overlap
RECURSIVE SplitFrom(_, _)
SplitFrom(text, start) ==
    IF Len(text) - start <= chunk_size
    THEN << SubSeq(text, start + 1, Len(text)) >>
    ELSE << SubSeq(text, start + 1, start + chunk_size) >>
            \o SplitFrom(text, NextChunkStart(start))

SplitText(text) == IF Len(Strip(text)) = 0 THEN << >> ELSE SplitFrom(text, 0)

\* pil_to_base64 of the rendered page: a non-empty base64 string
pil_to_base64(page_idx) == <<"i", "V", "B">> \o IntToStr(page_idx)

\* el.metadata.get("element_type", "").startswith("Narrative")
NarrativeTypes == {"NarrativeText", "Narrative"}

\* the non-blank pages, as (text, metadata) in page order (lines 90-92, 97)
RECURSIVE PageUnits(_, _)
PageUnits(file, idx) ==
    IF idx > Len(file.pages) THEN << >>
    ELSE LET text == Strip(file.pages[idx])
         IN  (IF Len(text) > 0
              THEN << [kind |-> "page", idx |-> idx, block |-> text,
                       metadata |-> [source |-> Some(file.filename),
                                     page |-> Some(idx),
                                     type |-> "page", raw |-> text]] >>
              ELSE << >>)
             \o PageUnits(file, idx + 1)

\* the elements of one category with md = {"source", "page"} (lines 104-110)
ElementsOf(file, narrative) ==
    LET keep(el) ==
            IF narrative
            THEN MdGetD(el.metadata, "element_type", "") \in NarrativeTypes
            ELSE /\ MdGetD(el.metadata, "element_type", "") \notin NarrativeTypes
                 /\ MdGetD(el.metadata, "element_type", "") = "Table"
    IN  SelectSeq(file.elements, keep)

ElementMd(file, el) ==
    [source |-> Some(file.filename), page |-> MdGet(el.metadata, "page_number")]

\* the chunks of the narrative elements from position i on (lines 112-119)
RECURSIVE ChunkUnits(_, _)
ChunkUnits(file, i) ==
    LET text_chunks == ElementsOf(file, TRUE)
    IN  IF i > Len(text_chunks) THEN << >>
        ELSE LET el == text_chunks[i]
                 chunks == SplitText(el.page_content)
             IN  [j \in 1..Len(chunks) |->
                    [kind |-> "chunk", idx |-> 0, block |-> chunks[j],
                     metadata |-> [source |-> ElementMd(file, el).source,
                                   page |-> ElementMd(file, el).page,
                                   type |-> "chunk", raw |-> chunks[j]]]]
                 \o ChunkUnits(file, i + 1)

\* the tables (lines 123-130)
TableUnits(file) ==
    LET tables == ElementsOf(file, FALSE)
    IN  [i \in 1..Len(tables) |->
            [kind |-> "table", idx |-> 0,
             block |-> <<"<", "t", "a", "b", "l", "e", ">", "\n">>
                       \o tables[i].page_content
                       \o <<"\n", "<", "/", "t", "a", "b", "l", "e", ">">>,
             metadata |-> [source |-> ElementMd(file, tables[i]).source,
                           page |-> ElementMd(file, tables[i]).page,
                           type |-> "table",
                           raw |-> tables[i].page_content]]]

\* the page images whose OCR text is not blank (lines 66-79, 134-145)
RECURSIVE ImageUnits(_, _)
ImageUnits(file, page_idx) ==
    IF page_idx >= Len(file.ocr) THEN << >>
    ELSE LET ocr == Strip(file.ocr[page_idx + 1])
         IN  (IF Len(ocr) > 0
              THEN << [kind |-> "image", idx |-> 0, block |-> ocr,
                       metadata |-> [source |-> Some(file.filename),
                                     page |-> Some(page_idx + 1),
                                     type |-> "image", raw |-> ocr,
                                     img_b64 |-> Some(pil_to_base64(page_idx + 1))]] >>
              ELSE << >>)
             \o ImageUnits(file, page_idx + 1)

\* The loader calls that may raise, in the order the code makes them; "none":
\* no loader raises.  PyPDFLoader, UnstructuredPDFLoader and pytesseract
\* raise into the outer except (line 148); an exception of fitz is caught in
\* advanced_extract_images (lines 77-78), which returns the images it has.
LoaderFailures ==
    {"none", "PyPDFLoader", "UnstructuredPDFLoader", "fitz", "pytesseract"}

\* the units the code gets to summarise, in its order, when loader_fail raises
ExtractedUnits(file, loader_fail) ==
    CASE loader_fail = "PyPDFLoader" -> << >>
      [] loader_fail = "UnstructuredPDFLoader" -> PageUnits(file, 1)
      [] loader_fail \in {"fitz", "pytesseract"} ->
            PageUnits(file, 1) \o ChunkUnits(file, 1) \o TableUnits(file)
      [] OTHER ->
            PageUnits(file, 1) \o ChunkUnits(file, 1) \o TableUnits(file)
                \o ImageUnits(file, 0)

\* the message appended when summarising a unit raises (lines 100, 121, 132, 147)
SummaryError(unit) ==
    CASE unit.kind = "page" ->
            <<"P", "a", "g", "e", " ">> \o IntToStr(unit.idx)
            \o <<" ", "s", "u", "m", "m", "a", "r", "y", " ", "f", "a", "i",
                 "l", "e", "d", ":", " ">> \o ExcText
      [] unit.kind = "chunk" ->
            <<"C", "h", "u", "n", "k", " ", "s", "u", "m", "m", "a", "r", "y",
              " ", "f", "a", "i", "l", "e", "d", ":", " ">> \o ExcText
      [] unit.kind = "table" ->
            <<"T", "a", "b", "l", "e", " ", "s", "u", "m", "m", "a", "r", "y",
              " ", "f", "a", "i", "l", "e", "d", ":", " ">> \o ExcText
      [] unit.kind = "image" ->
            <<"I", "m", "a", "g", "e", " ", "s", "u", "m", "m", "a", "r", "y",
              " ", "f", "a", "i", "l", "e", "d", ":", " ">> \o ExcText

\* Document(page_content=resp.content, metadata=...)
Document(unit, content) == [page_content |-> content, metadata |-> unit.metadata]

\* The outcomes of the LLM calls of one run: for each extracted unit None
\* (the chain raises) or Some(resp.content).
LLMOutcomes(units) == [1..Len(units) -> {None} \cup {Some(c) : c \in LLMOutputs}]

RECURSIVE Summaries(_, _, _)
Summaries(units, llm, i) ==
    IF i > Len(units) THEN << >>
    ELSE (IF llm[i] = None THEN << >> ELSE << Document(units[i], llm[i][1]) >>)
         \o Summaries(units, llm, i + 1)

RECURSIVE SummaryErrors(_, _, _)
SummaryErrors(units, llm, i) ==
    IF i > Len(units) THEN << >>
    ELSE (IF llm[i] = None THEN << SummaryError(units[i]) >> ELSE << >>)
         \o SummaryErrors(units, llm, i + 1)

\* ingest_pdf_bytes up to its Qdrant calls: (summaries, errors)
ingest_pdf_bytes(file, loader_fail, llm) ==
    LET units == ExtractedUnits(file, loader_fail)
    IN  [summaries |-> Summaries(units, llm, 1),
         errors    |-> SummaryErrors(units, llm, 1)
                       \o (IF loader_fail \in {"none", "fitz"}
                           THEN << >> ELSE << ExcText >>)]

-----------------------------------------------------------------------------
(* retrieval.py                                                            *)

\* the k of the candidate pool fetched by the keyword fallback (line 70)
PoolK == 50

Min(a, b) == IF a < b THEN a ELSE b

\* vectorstore.similarity_search(_, k) when it does not raise: the k nearest
\* of the n stored points (all n when k >= n), in the order of their scores.
\* The scores are the embedding service's: any order may come back.
RECURSIVE Arrangements(_, _)
Arrangements(S, k) ==
    IF k <= 0 \/ S = {} THEN { <<>> }
    ELSE UNION { { <<x>> \o r : r \in Arrangements(S \ {x}, k - 1) } : x \in S }

Rankings(n, k) == Arrangements(1..n, Min(n, k))

\* the result dict of retrieve (lines 51-58)
ToResult(doc) ==
    [summary |-> doc.page_content,
     raw     |-> MdGetD(doc.metadata, "raw", <<>>),
     img_b64 |-> MdGet(doc.metadata, "img_b64"),
     source  |-> MdGetD(doc.metadata, "source", Some(<<>>)),
     page    |-> MdGet(doc.metadata, "page")]

\* the result dict of the keyword fallback (lines 79-85)
KeywordResult(doc) ==
    [summary |-> doc.page_content,
     raw     |-> MdGetD(doc.metadata, "raw", <<>>),
     img_b64 |-> MdGet(doc.metadata, "img_b64"),
     source  |-> MdGetD(doc.metadata, "source", Some(<<>>)),
     page    |-> MdGet(doc.metadata, "page")]

\* seen starts empty instead of holding the semantic results' pairs
SeenOfEmpty(results) == {}

\* {(res["source"], res["page"]) for res in semantic_results} (line 67)
SeenOf(results) == {<<results[i].source, results[i].page>> : i \in DOMAIN results}

\* identifier = (md.get("source"), md.get("page")) (line 77)
Identifier(doc) == <<MdGet(doc.metadata, "source"), MdGet(doc.metadata, "page")>>

\* the query is looked for in the summary instead of the raw text
KeywordMatchSummary(q, doc) == Contains(Lower(q), Lower(doc.page_content))

\* query.lower() in md.get("raw", "").lower() (lines 74-76)
KeywordMatch(q, doc) == Contains(Lower(q), Lower(MdGetD(doc.metadata, "raw", <<>>)))

\* <= instead of <
NeedsFallbackAtTopK(results, k) == Len(results) <= k

\* len(semantic_results) < top_k (line 65)
NeedsFallback(results, k) == Len(results) < k

\* > instead of >=
ScanBreaksLate(sem, kw, k) == Len(sem) + Len(kw) > k

\* len(semantic_results) + len(keyword_results) >= top_k (line 88)
ScanBreaks(sem, kw, k) == Len(sem) + Len(kw) >= k

\* the variables of a hybrid_retrieve call before it starts
CallReset ==
    /\ semantic_results' = <<>>
    /\ potential_docs' = None
    /\ scan_i' = 0
    /\ keyword_results' = <<>>
    /\ seen' = {}
    /\ hits' = None

ServerUnchanged ==
    UNCHANGED <<collection_exists, collection, retriever, files, total_chunks,
                errors, upload_completed, upload_files, ingested>>

SplitUnchanged == UNCHANGED <<split_text, split_start, split_chunks>>

IngestUnchanged ==
    UNCHANGED <<ingest_file, temp_path_exists, summaries, ingest_errors, stage,
                stage_units, ocr_raises, ingest_result, loader_raised, rendered>>

\* retrieve(query, top_k) and the test of line 65: the similarity search
\* raises (or the collection is missing) and retrieve returns [], or it
\* returns a ranking; without fallback hybrid_retrieve returns at once.
retrieve ==
    /\ pc = "retrieve"
    /\ \E ok \in BOOLEAN :
         \E r \in (IF ok /\ collection_exists
                   THEN Rankings(Len(collection), top_k) ELSE {<<>>}) :
            LET results == [i \in DOMAIN r |-> ToResult(collection[r[i]])]
            IN  /\ semantic_results' = results
                /\ IF NeedsFallback(results, top_k)
                   THEN /\ seen' = SeenOf(results)
                        /\ keyword_results' = <<>>
                        /\ pc' = "fetch_pool"
                        /\ hits' = None
                   ELSE /\ pc' = "returned"
                        /\ hits' = Some(results)
                        /\ UNCHANGED <<seen, keyword_results>>
    /\ env_calls' = env_calls \cup {"retrieval"}
    /\ UNCHANGED <<potential_docs, scan_i, query, top_k, response>>
    /\ ServerUnchanged /\ SplitUnchanged /\ IngestUnchanged

\* potential_docs = similarity_search("", k=50) (line 70); an exception
\* leaves hybrid_retrieve
FetchPool ==
    /\ pc = "fetch_pool"
    /\ \E ok \in BOOLEAN :
         IF ok /\ collection_exists
         THEN \E r \in Rankings(Len(collection), PoolK) :
                /\ potential_docs' = Some([i \in DOMAIN r |-> collection[r[i]]])
                /\ pc' = "scan"
         ELSE /\ pc' = "raised"
              /\ UNCHANGED potential_docs
    /\ scan_i' = 0
    /\ UNCHANGED <<semantic_results, keyword_results, seen, hits, query, top_k,
                   response, env_calls>>
    /\ ServerUnchanged /\ SplitUnchanged /\ IngestUnchanged

\* one iteration of the loop of lines 72-89 over potential_docs
ScanStep ==
    /\ pc = "scan"
    /\ scan_i < Len(potential_docs[1])
    /\ LET doc == potential_docs[1][scan_i + 1]
           add == KeywordMatch(query, doc) /\ Identifier(doc) \notin seen
           kw  == IF add THEN Append(keyword_results, KeywordResult(doc))
                  ELSE keyword_results
       IN  /\ keyword_results' = kw
           /\ seen' = IF add THEN seen \cup {Identifier(doc)} ELSE seen
           /\ pc' = IF ScanBreaks(semantic_results, kw, top_k)
                    THEN "scan_done" ELSE "scan"
    /\ scan_i' = scan_i + 1
    /\ UNCHANGED <<semantic_results, potential_docs, hits, query, top_k,
                   response, env_calls>>
    /\ ServerUnchanged /\ SplitUnchanged /\ IngestUnchanged

\* the fallback returns keyword_results alone
HybridReturnKeywordOnly ==
    /\ \/ pc = "scan_done"
       \/ pc = "scan" /\ scan_i = Len(potential_docs[1])
    /\ hits' = Some(keyword_results)
    /\ pc' = "returned"
    /\ UNCHANGED <<semantic_results, potential_docs, scan_i, keyword_results,
                   seen, query, top_k, response, env_calls>>
    /\ ServerUnchanged /\ SplitUnchanged /\ IngestUnchanged

\* return semantic_results + keyword_results (line 91), after the break or
\* when potential_docs is exhausted
HybridReturn ==
    /\ \/ pc = "scan_done"
       \/ pc = "scan" /\ scan_i = Len(potential_docs[1])
    /\ hits' = Some(semantic_results \o keyword_results)
    /\ pc' = "returned"
    /\ UNCHANGED <<semantic_results, potential_docs, scan_i, keyword_results,
                   seen, query, top_k, response, env_calls>>
    /\ ServerUnchanged /\ SplitUnchanged /\ IngestUnchanged

-----------------------------------------------------------------------------
(* retrieval_api.py: /upload                                               *)

\* the most files one /upload request carries
MaxFiles == 2

UploadRequests == UNION { [1..n -> Files] : n \in 1..MaxFiles }

\* the name is not lower-cased
IsPdfNameCaseSensitive(filename) == EndsWith(filename, <<".", "p", "d", "f">>)

\* upload.filename.lower().endswith(".pdf") (line 82)
IsPdfName(filename) == EndsWith(Lower(filename), <<".", "p", "d", "f">>)

\* f"{upload.filename}: not a PDF" (line 83)
NotAPdfError(filename) ==
    filename \o <<":", " ", "n", "o", "t", " ", "a", " ", "P", "D", "F">>

\* f"{upload.filename} ingestion error: {e}" (line 92)
IngestionError(filename) ==
    filename \o <<" ", "i", "n", "g", "e", "s", "t", "i", "o", "n", " ",
                  "e", "r", "r", "o", "r", ":", " ">> \o ExcText

\* what ingest_pdf_bytes may do with one file: (summaries, errors) for every
\* loader failure and every outcome of the LLM calls
IngestRuns(file) ==
    { ingest_pdf_bytes(file, lf, llm) :
        lf \in LoaderFailures, llm \in LLMOutcomes(ExtractedUnits(file, "none")) }

\* the collection is deleted when present and created anew (lines 68-77);
\* a database call that raises ends the request with a 500: collection_exists
\* before anything is deleted, create_collection after the deletion.
\* upload_files and ingested follow the most recent request that got as far
\* as deleting the collection.
UploadBegin ==
    /\ pc = "idle"
    /\ \E raised \in {"no", "collection_exists", "create_collection"} :
         CASE raised = "no" ->
                \E fs \in UploadRequests :
                    /\ collection_exists' = TRUE
                    /\ collection' = <<>>
                    /\ files' = fs
                    /\ pc' = "upload"
                    /\ response' = None
                    /\ upload_files' = fs
                    /\ ingested' = <<>>
           [] raised = "collection_exists" ->
                /\ response' = Some([status |-> 500])
                /\ UNCHANGED <<collection_exists, collection, files, pc,
                               upload_files, ingested>>
           [] raised = "create_collection" ->
                \E fs \in UploadRequests :
                    /\ collection_exists' = FALSE
                    /\ collection' = <<>>
                    /\ response' = Some([status |-> 500])
                    /\ upload_files' = fs
                    /\ ingested' = <<>>
                    /\ UNCHANGED <<files, pc>>
    /\ total_chunks' = 0
    /\ errors' = <<>>
    /\ env_calls' = {}
    /\ CallReset
    /\ UNCHANGED <<retriever, upload_completed, query, top_k>>
    /\ SplitUnchanged /\ IngestUnchanged

\* one iteration of the loop of lines 81-93, ingest_pdf_bytes included: its
\* Qdrant calls (Ingestion.py lines 153-161) create the collection when it
\* is missing and add the summaries; `raises`: ingest_pdf_bytes raises
\* (the temporary file, the database) and nothing is added
UploadFile ==
    /\ pc = "upload"
    /\ Len(files) > 0
    /\ LET upload == Head(files)
       IN  IF ~IsPdfName(upload.filename)
           THEN /\ errors' = Append(errors, NotAPdfError(upload.filename))
                /\ ingested' = Append(ingested, <<>>)
                /\ UNCHANGED <<collection_exists, collection, total_chunks>>
           ELSE \E raises \in BOOLEAN, run \in IngestRuns(upload) :
                  IF raises
                  THEN /\ errors' = Append(errors, IngestionError(upload.filename))
                       /\ ingested' = Append(ingested, <<>>)
                       /\ UNCHANGED <<collection_exists, collection, total_chunks>>
                  ELSE /\ collection_exists' = TRUE
                       /\ collection' = collection \o run.summaries
                       /\ total_chunks' = total_chunks + Len(run.summaries)
                       /\ errors' = errors \o run.errors
                       /\ ingested' = Append(ingested, run.summaries)
    /\ files' = Tail(files)
    /\ UNCHANGED <<retriever, pc, query, top_k, semantic_results, potential_docs,
                   scan_i, keyword_results, seen, hits, response,
                   upload_completed, upload_files, env_calls>>
    /\ SplitUnchanged /\ IngestUnchanged

\* retriever = PDFRAGRetriever(...) and the response (lines 95-100); the
\* constructor creates the collection when it is missing (retrieval.py
\* lines 24-33) and raises when the vector store cannot be set up
UploadFinish ==
    /\ pc = "upload"
    /\ Len(files) = 0
    /\ \E raises \in BOOLEAN :
         IF raises
         THEN /\ response' = Some([status |-> 500])
              /\ UNCHANGED <<retriever, upload_completed, collection_exists>>
         ELSE /\ retriever' = "set"
              /\ collection_exists' = TRUE
              /\ upload_completed' = TRUE
              /\ response' = Some([status |-> 200, chunks_indexed |-> total_chunks,
                                   errors |-> errors])
    /\ pc' = "idle"
    /\ total_chunks' = 0
    /\ errors' = <<>>
    /\ UNCHANGED <<collection, files, query, top_k, semantic_results,
                   potential_docs, scan_i, keyword_results, seen, hits,
                   upload_files, ingested, env_calls>>
    /\ SplitUnchanged /\ IngestUnchanged

-----------------------------------------------------------------------------
(* retrieval_api.py: /ask                                                  *)

\* the top_k /ask passes to hybrid_retrieve (line 110)
AskTopK == 3

\* the questions asked
Queries == { <<"a", "B">>, <<"z">>, <<" ">> }

\* h.get("source") or h.get("metadata", {}).get("source", "unknown") (line 124)
HitSource(h) ==
    IF TruthyStr(h.source) THEN h.source[1]
    ELSE <<"u", "n", "k", "n", "o", "w", "n">>

\* the page is read from the nested metadata only, which a hit does not carry
HitPageNested(h) == -1

\* h.get("page") or h.get("metadata", {}).get("page", -1) (line 125)
HitPage(h) == IF TruthyInt(h.page) THEN h.page[1] ELSE -1

\* f"{src} (page {pg})" (line 126)
Citation(h) ==
    HitSource(h) \o <<" ", "(", "p", "a", "g", "e", " ">>
                 \o IntToStr(HitPage(h)) \o <<")">>

\* h.get("img_b64") or h.get("metadata", {}).get("img_b64") (line 131)
HitImage(h) == IF TruthyStr(h.img_b64) THEN h.img_b64 ELSE None

\* if img_b64: (line 132)
HasImage(h) == TruthyStr(HitImage(h))

\* the image carries the default page instead of the hit's
ImageResponseDefaultPage(h) ==
    [img_b64 |-> HitImage(h)[1], source |-> HitSource(h), page |-> -1]

\* ImageResponse(img_b64=img_b64, source=src, page=pg) (line 133)
ImageResponse(h) ==
    [img_b64 |-> HitImage(h)[1], source |-> HitSource(h), page |-> HitPage(h)]

\* citations of the loop of lines 123-133
Citations(hs) == [i \in DOMAIN hs |-> Citation(hs[i])]

\* images_resp of the loop of lines 123-133
RECURSIVE Images(_, _)
Images(hs, i) ==
    IF i > Len(hs) THEN << >>
    ELSE (IF HasImage(hs[i]) THEN << ImageResponse(hs[i]) >> ELSE << >>)
         \o Images(hs, i + 1)

\* the question is not stripped
IsBlankNoStrip(text) == Len(text) = 0

\* not query.text.strip() (line 104)
IsBlank(text) == Len(Strip(text)) = 0

\* the two guards of ask (lines 104-107), then the call of line 110
ask ==
    /\ pc = "idle"
    /\ \E text \in Queries :
         /\ query' = text
         /\ IF IsBlank(text)
            THEN /\ response' = Some([status |-> 400, detail |-> "Empty question."])
                 /\ UNCHANGED <<pc, top_k>>
            ELSE IF retriever = "None"
            THEN /\ response' = Some([status |-> 400,
                                      detail |-> "No PDFs indexed. POST /upload first."])
                 /\ UNCHANGED <<pc, top_k>>
            ELSE /\ response' = None
                 /\ pc' = "retrieve"
                 /\ top_k' = AskTopK
    /\ env_calls' = {}
    /\ CallReset
    /\ ServerUnchanged /\ SplitUnchanged /\ IngestUnchanged

\* hybrid_retrieve raised (lines 111-114)
AskRetrievalError ==
    /\ pc = "raised"
    /\ response' = Some([status |-> 500, detail |-> "Retrieval error"])
    /\ pc' = "idle"
    /\ CallReset
    /\ UNCHANGED <<query, top_k, env_calls>>
    /\ ServerUnchanged /\ SplitUnchanged /\ IngestUnchanged

\* lines 116-149: no hit is a 404; otherwise the citations and images are
\* built, the LLM is called once and its answer returned, or a 500 when
\* it raises.  The locals of hybrid_retrieve are gone; hits stays.
AskRespond ==
    /\ pc = "returned"
    /\ IF Len(hits[1]) = 0
       THEN /\ response' = Some([status |-> 404, detail |-> "No relevant content found."])
            /\ UNCHANGED env_calls
       ELSE /\ env_calls' = env_calls \cup {"llm"}
            /\ \E llm \in {None} \cup {Some(c) : c \in LLMOutputs} :
                 IF llm = None
                 THEN response' = Some([status |-> 500, detail |-> "LLM error"])
                 ELSE response' = Some([status |-> 200,
                                        answer |-> Strip(llm[1]),
                                        citations |-> Citations(hits[1]),
                                        images |-> Images(hits[1], 1)])
    /\ pc' = "idle"
    /\ semantic_results' = <<>>
    /\ potential_docs' = None
    /\ scan_i' = 0
    /\ keyword_results' = <<>>
    /\ seen' = {}
    /\ UNCHANGED <<query, top_k, hits>>
    /\ ServerUnchanged /\ SplitUnchanged /\ IngestUnchanged

-----------------------------------------------------------------------------
(* A run of the splitter over one narrative text, chunk by chunk           *)

\* the longest narrative text split
MaxTextLen == 1700

\* one chunk of SplitFrom: the last one when what is left fits chunk_size
SplitStep ==
    /\ pc = "split"
    /\ LET left == Len(split_text) - split_start
       IN  IF left <= chunk_size
           THEN /\ split_chunks' = Append(split_chunks,
                                          [start |-> split_start, len |-> left])
                /\ pc' = "split_done"
                /\ UNCHANGED split_start
           ELSE /\ split_chunks' = Append(split_chunks,
                                          [start |-> split_start, len |-> chunk_size])
                /\ split_start' = NextChunkStart(split_start)
                /\ UNCHANGED pc
    /\ UNCHANGED <<collection_exists, collection, retriever, files, total_chunks,
                   errors, query, top_k, semantic_results, potential_docs,
                   scan_i, keyword_results, seen, hits, response,
                   upload_completed, upload_files, ingested, env_calls,
                   split_text>>
    /\ IngestUnchanged

-----------------------------------------------------------------------------
(* Ingestion.py: ingest_pdf_bytes, statement by statement                  *)

\* a file of three pages, the second one blank, with a narrative element, a
\* table and three page images, the second one without text
FileT ==
    [filename |-> <<"t", ".", "p", "d", "f">>,
     pages    |-> << <<"p">>, <<" ">>, <<"q", "\n">> >>,
     elements |-> << [page_content |-> <<"c">>,
                      metadata |-> [element_type |-> "NarrativeText",
                                    page_number |-> Some(1)]],
                     [page_content |-> <<"t">>,
                      metadata |-> [element_type |-> "Table",
                                    page_number |-> Some(3)]] >>,
     ocr      |-> << <<"o">>, <<"\n">>, <<"r">> >>]

\* ingest_pdf_bytes is called for the files upload_pdfs takes for PDFs
\* (retrieval_api.py lines 82-88)
IngestFiles == { f \in Files \cup {FileT} : IsPdfName(f.filename) }

\* the file with only its first n page images (advanced_extract_images
\* stopped by an exception, or the images before the one pytesseract fails on)
WithImages(file, n) == [file EXCEPT !.ocr = SubSeq(file.ocr, 1, n)]

\* temp_path is created and written (lines 85-87), outside the try: open
\* raises and there is no file, write raises and the file stays, or the file
\* is written and the try block begins
WriteTempFile ==
    /\ pc = "ingest"
    /\ \E outcome \in {"written", "open_raises", "write_raises"} :
         /\ temp_path_exists' = (outcome # "open_raises")
         /\ pc' = IF outcome = "written" THEN "load" ELSE "ingest_raised"
    /\ stage' = "page"
    /\ UNCHANGED <<ingest_file, summaries, ingest_errors, stage_units,
                   ocr_raises, ingest_result, loader_raised, rendered>>
    /\ UNCHANGED <<query, top_k, response, env_calls>>
    /\ UNCHANGED <<semantic_results, potential_docs, scan_i, keyword_results,
                   seen, hits>>
    /\ ServerUnchanged /\ SplitUnchanged

\* the loader call that opens a stage: PyPDFLoader(...).load() (line 90),
\* UnstructuredPDFLoader(...).load() with the sorting of the elements (lines
\* 102-110), advanced_extract_images with the OCR of the images (lines
\* 134-138).  A loader that raises ends the try block in the outer except
\* (lines 148-149); pytesseract raises on one image, after the images before
\* it have been summarised.
LoadUnits ==
    /\ pc = "load"
    /\ LET file == ingest_file[1]
       IN  CASE stage = "page" ->
                  \E raises \in BOOLEAN :
                      /\ IF raises
                         THEN /\ ingest_errors' = Append(ingest_errors, ExcText)
                              /\ loader_raised' = TRUE
                              /\ pc' = "finally"
                              /\ UNCHANGED stage_units
                         ELSE /\ stage_units' = PageUnits(file, 1)
                              /\ pc' = "summarise"
                              /\ UNCHANGED <<ingest_errors, loader_raised>>
                      /\ UNCHANGED <<ocr_raises, rendered>>
             [] stage = "element" ->
                  \E raises \in BOOLEAN :
                      /\ IF raises
                         THEN /\ ingest_errors' = Append(ingest_errors, ExcText)
                              /\ loader_raised' = TRUE
                              /\ pc' = "finally"
                              /\ UNCHANGED stage_units
                         ELSE /\ stage_units' = ChunkUnits(file, 1) \o TableUnits(file)
                              /\ pc' = "summarise"
                              /\ UNCHANGED <<ingest_errors, loader_raised>>
                      /\ UNCHANGED <<ocr_raises, rendered>>
             [] stage = "image" ->
                  \E n \in 0..Len(file.ocr) :
                    \E failing \in 0..n :
                      /\ rendered' = Some(n)
                      /\ ocr_raises' = (failing > 0)
                      /\ stage_units' =
                            ImageUnits(WithImages(file, IF failing > 0
                                                        THEN failing - 1 ELSE n), 0)
                      /\ pc' = "summarise"
                      /\ UNCHANGED <<ingest_errors, loader_raised>>
    /\ UNCHANGED <<ingest_file, temp_path_exists, summaries, stage, ingest_result>>
    /\ UNCHANGED <<query, top_k, response, env_calls, semantic_results,
                   potential_docs, scan_i, keyword_results, seen, hits>>
    /\ ServerUnchanged /\ SplitUnchanged

\* one unit is summarised (lines 93-100, 114-121, 125-132, 139-147): the
\* chain returns and a Document is appended, or it raises and an error is
\* appended; the loop goes on with the next unit either way
SummariseUnit ==
    /\ pc = "summarise"
    /\ Len(stage_units) > 0
    /\ LET unit == Head(stage_units)
       IN  \E resp \in {None} \cup {Some(c) : c \in LLMOutputs} :
             IF resp = None
             THEN /\ ingest_errors' = Append(ingest_errors, SummaryError(unit))
                  /\ UNCHANGED summaries
             ELSE /\ summaries' = Append(summaries, Document(unit, resp[1]))
                  /\ UNCHANGED ingest_errors
    /\ stage_units' = Tail(stage_units)
    /\ UNCHANGED <<ingest_file, temp_path_exists, stage, ocr_raises,
                   ingest_result, loader_raised, rendered, pc>>
    /\ UNCHANGED <<query, top_k, response, env_calls, semantic_results,
                   potential_docs, scan_i, keyword_results, seen, hits>>
    /\ ServerUnchanged /\ SplitUnchanged

\* the loop of a stage is over: the next loader is called, or the try block
\* ends, in the outer except when pytesseract raised
StageDone ==
    /\ pc = "summarise"
    /\ Len(stage_units) = 0
    /\ CASE stage = "page" ->
              /\ stage' = "element" /\ pc' = "load"
              /\ UNCHANGED <<ingest_errors, loader_raised>>
         [] stage = "element" ->
              /\ stage' = "image" /\ pc' = "load"
              /\ UNCHANGED <<ingest_errors, loader_raised>>
         [] stage = "image" ->
              /\ pc' = "finally"
              /\ ingest_errors' = IF ocr_raises
                                  THEN Append(ingest_errors, ExcText)
                                  ELSE ingest_errors
              /\ loader_raised' = ocr_raises
              /\ UNCHANGED stage
    /\ UNCHANGED <<ingest_file, temp_path_exists, summaries, stage_units,
                   ocr_raises, ingest_result, rendered>>
    /\ UNCHANGED <<query, top_k, response, env_calls, semantic_results,
                   potential_docs, scan_i, keyword_results, seen, hits>>
    /\ ServerUnchanged /\ SplitUnchanged

\* finally: os.remove(temp_path) (lines 150-151)
RemoveTempFile ==
    /\ pc = "finally"
    /\ temp_path_exists' = FALSE
    /\ pc' = "qdrant"
    /\ UNCHANGED <<ingest_file, summaries, ingest_errors, stage, stage_units,
                   ocr_raises, ingest_result, loader_raised, rendered>>
    /\ UNCHANGED <<query, top_k, response, env_calls, semantic_results,
                   potential_docs, scan_i, keyword_results, seen, hits>>
    /\ ServerUnchanged /\ SplitUnchanged

\* the Qdrant calls and the return (lines 153-162): the collection is
\* created when it is missing, the summaries are added when there are any,
\* and (len(summaries), errors) is returned; a database call that raises
\* ends the call, nothing added
StoreSummaries ==
    /\ pc = "qdrant"
    /\ \E raises \in BOOLEAN :
         IF raises
         THEN /\ pc' = "ingest_raised"
              /\ UNCHANGED <<collection_exists, collection, ingest_result>>
         ELSE /\ collection_exists' = TRUE
              /\ collection' = collection \o summaries
              /\ ingest_result' = Some([count |-> Len(summaries),
                                        errors |-> ingest_errors])
              /\ pc' = "ingest_returned"
    /\ UNCHANGED <<ingest_file, temp_path_exists, summaries, ingest_errors,
                   stage, stage_units, ocr_raises, loader_raised, rendered>>
    /\ UNCHANGED <<retriever, files, total_chunks, errors, upload_completed,
                   upload_files, ingested>>
    /\ UNCHANGED <<query, top_k, response, env_calls, semantic_results,
                   potential_docs, scan_i, keyword_results, seen, hits>>
    /\ SplitUnchanged

-----------------------------------------------------------------------------
(* Specifications                                                          *)

\* the state of a process that serves no request and runs no call
Quiet ==
    /\ retriever = "None"
    /\ files = <<>>
    /\ total_chunks = 0
    /\ errors = <<>>
    /\ semantic_results = <<>>
    /\ potential_docs = None
    /\ scan_i = 0
    /\ keyword_results = <<>>
    /\ seen = {}
    /\ hits = None
    /\ response = None
    /\ upload_completed = FALSE
    /\ upload_files = <<>>
    /\ ingested = <<>>
    /\ env_calls = {}
    /\ temp_path_exists = FALSE
    /\ summaries = <<>>
    /\ ingest_errors = <<>>
    /\ stage = "page"
    /\ stage_units = <<>>
    /\ ocr_raises = FALSE
    /\ ingest_result = None
    /\ loader_raised = FALSE
    /\ rendered = None

\* The service after start-up (retrieval_api.py lines 19-39): no retriever;
\* the collection may be there from an earlier run or not.
Init ==
    /\ Quiet
    /\ ingest_file = None
    /\ pc = "idle"
    /\ collection_exists \in BOOLEAN
    /\ collection = <<>>
    /\ query = <<>>
    /\ top_k = AskTopK
    /\ split_text = <<>>
    /\ split_start = 0
    /\ split_chunks = <<>>

Next ==
    \/ UploadBegin
    \/ UploadFile
    \/ UploadFinish
    \/ ask
    \/ retrieve
    \/ FetchPool
    \/ ScanStep
    \/ HybridReturn
    \/ AskRetrievalError
    \/ AskRespond

Spec == Init /\ [][Next]_vars

\* the largest top_k hybrid_retrieve is called with
MaxTopK == 3

\* what one file may add to the collection during an /upload
FileAdds(file) ==
    IF IsPdfName(file.filename)
    THEN { <<>> } \cup { run.summaries : run \in IngestRuns(file) }
    ELSE { <<>> }

\* the collections an /upload of the files fs[i..] may build
RECURSIVE CollectionsOf(_, _)
CollectionsOf(fs, i) ==
    IF i > Len(fs) THEN { <<>> }
    ELSE { a \o b : a \in FileAdds(fs[i]), b \in CollectionsOf(fs, i + 1) }

\* hybrid_retrieve(query, top_k) called on a retriever over a collection
\* that some /upload built (or that is missing), for every query and top_k
InitRetrieve ==
    /\ Quiet
    /\ ingest_file = None
    /\ pc = "retrieve"
    /\ collection_exists \in BOOLEAN
    /\ \E fs \in UploadRequests :
         collection \in (IF collection_exists THEN CollectionsOf(fs, 1) ELSE { <<>> })
    /\ query \in Queries \cup { <<>> }
    /\ top_k \in 0..MaxTopK
    /\ split_text = <<>>
    /\ split_start = 0
    /\ split_chunks = <<>>

NextRetrieve ==
    \/ retrieve
    \/ FetchPool
    \/ ScanStep
    \/ HybridReturn

SpecRetrieve == InitRetrieve /\ [][NextRetrieve]_vars

\* splitter.split_text on a narrative text of every length up to MaxTextLen
InitSplit ==
    /\ Quiet
    /\ ingest_file = None
    /\ pc = "split"
    /\ collection_exists = FALSE
    /\ collection = <<>>
    /\ query = <<>>
    /\ top_k = AskTopK
    /\ \E n \in 1..MaxTextLen : split_text = [i \in 1..n |-> "x"]
    /\ split_start = 0
    /\ split_chunks = <<>>

NextSplit == SplitStep

SpecSplit == InitSplit /\ [][NextSplit]_vars

\* ingest_pdf_bytes(pdf_bytes, pdf_filename) called for every file, on a
\* collection that is missing or that an earlier call filled
InitIngest ==
    /\ Quiet
    /\ pc = "ingest"
    /\ ingest_file \in {Some(f) : f \in IngestFiles}
    /\ collection_exists \in BOOLEAN
    /\ collection \in (IF collection_exists
                       THEN { <<>> } \cup FileAdds(FileA) ELSE { <<>> })
    /\ query = <<>>
    /\ top_k = AskTopK
    /\ split_text = <<>>
    /\ split_start = 0
    /\ split_chunks = <<>>

NextIngest ==
    \/ WriteTempFile
    \/ LoadUnits
    \/ SummariseUnit
    \/ StageDone
    \/ RemoveTempFile
    \/ StoreSummaries

SpecIngest == InitIngest /\ [][NextIngest]_vars

-----------------------------------------------------------------------------
(* Properties of hybrid_retrieve, checked under SpecRetrieve               *)

\* the (source, page) pair of a result dict
PairOf(h) == <<h.source, h.page>>

\* the distinct (source, page) units stored in the collection
StoredUnits ==
    { <<collection[i].metadata.source, collection[i].metadata.page>> :
        i \in DOMAIN collection }

\* the raw text contains the query, case-insensitively
RawHasQuery(raw) == Contains(Lower(query), Lower(raw))

\* the distinct (source, page) units of the candidate pool whose raw text
\* contains the query
MatchingPoolUnits ==
    { <<potential_docs[1][i].metadata.source, potential_docs[1][i].metadata.page>> :
        i \in { j \in DOMAIN potential_docs[1] :
                    RawHasQuery(potential_docs[1][j].metadata.raw) } }

\* C1 as stated: hybrid_retrieve never returns fewer than
\* min(top_k, number of distinct (source, page) units stored) results.
C1_MinOfAvailableUnits ==
    pc = "returned" => Len(hits[1]) >= Min(top_k, Cardinality(StoredUnits))

\* C1, amended: hybrid_retrieve never returns fewer than min(top_k, m)
\* results, m being the number of distinct (source, page) units of the
\* candidate pool whose raw text contains the query case-insensitively (a
\* unit that does not match the query never fills the result up); and
\* whenever the similarity search returned its min(top_k, n) nearest of the
\* n stored units, the result has at least
\* min(top_k, number of distinct stored units) entries.
C1_MinOfMatchingUnits ==
    pc = "returned" =>
        /\ potential_docs = None => Len(hits[1]) >= top_k
        /\ potential_docs # None =>
                Len(hits[1]) >= Min(top_k, Cardinality(MatchingPoolUnits))
        /\ Len(semantic_results) = Min(top_k, Len(collection)) =>
                Len(hits[1]) >= Min(top_k, Cardinality(StoredUnits))

\* the fallback ran, found a match, and the result is still shorter than
\* both top_k and the number of stored units
C1_Witness ==
    /\ pc = "returned"
    /\ potential_docs # None
    /\ Len(keyword_results) >= 1
    /\ Len(hits[1]) < top_k
    /\ Len(hits[1]) < Cardinality(StoredUnits)

\* C2 as stated: the returned list holds no two entries with the same
\* (source, page) pair, semantic and keyword results alike.
C2_NoDuplicatePairs ==
    pc = "returned" =>
        \A i, j \in DOMAIN hits[1] :
            i # j => PairOf(hits[1][i]) # PairOf(hits[1][j])

\* C2, amended: no entry added by the keyword fallback has the (source, page)
\* pair of another entry of the returned list, semantic or keyword; the
\* semantic results themselves are returned as the search gave them and may
\* hold several units of one page.
C2_KeywordEntriesUnique ==
    pc = "returned" =>
        \A i, j \in DOMAIN hits[1] :
            (i < j /\ j > Len(semantic_results)) =>
                PairOf(hits[1][i]) # PairOf(hits[1][j])

\* the fallback added a unit and skipped a later candidate that matched the
\* query but had the pair of a unit already taken
C2_Witness ==
    /\ pc = "returned"
    /\ potential_docs # None
    /\ Len(keyword_results) >= 1
    /\ \E i, j \in 1..scan_i :
         /\ i < j
         /\ RawHasQuery(potential_docs[1][i].metadata.raw)
         /\ RawHasQuery(potential_docs[1][j].metadata.raw)
         /\ potential_docs[1][i].metadata.source = potential_docs[1][j].metadata.source
         /\ potential_docs[1][i].metadata.page = potential_docs[1][j].metadata.page

\* C3: the candidate pool is fetched and scanned only if the semantic search
\* returned fewer than top_k results; with top_k or more semantic results
\* the output is exactly those, in their order; when the fallback runs the
\* semantic results are an unchanged prefix of the output.
C3_FallbackOnlyWhenShort ==
    /\ (potential_docs # None \/ pc \in {"fetch_pool", "scan", "scan_done", "raised"})
            => Len(semantic_results) < top_k
    /\ pc = "returned" =>
            /\ Len(semantic_results) >= top_k =>
                    (hits[1] = semantic_results /\ potential_docs = None)
            /\ Len(hits[1]) >= Len(semantic_results)
            /\ SubSeq(hits[1], 1, Len(semantic_results)) = semantic_results

\* the fallback ran behind a non-empty semantic result and examined candidates
C3_Witness ==
    /\ pc = "returned"
    /\ potential_docs # None
    /\ Len(semantic_results) >= 1
    /\ scan_i >= 1

\* C4: every unit the keyword fallback adds is a scanned candidate (a) whose
\* stored raw text contains the raw query case-insensitively and (b) whose
\* (source, page) pair is not among the semantic results; no other candidate
\* is ever added.
C4_KeywordAdditions ==
    \A i \in DOMAIN keyword_results :
        LET h == keyword_results[i]
        IN  /\ RawHasQuery(h.raw)
            /\ \A j \in DOMAIN semantic_results :
                    PairOf(semantic_results[j]) # PairOf(h)
            /\ \E c \in 1..scan_i :
                    LET doc == potential_docs[1][c]
                    IN  /\ h.raw = doc.metadata.raw
                        /\ h.source = doc.metadata.source
                        /\ h.page = doc.metadata.page
                        /\ h.summary = doc.page_content

\* a unit was added whose raw text matches the query only when case is
\* ignored, and a scanned candidate was left out
C4_Witness ==
    /\ pc = "returned"
    /\ scan_i > Len(keyword_results)
    /\ \E i \in DOMAIN keyword_results : ~Contains(query, keyword_results[i].raw)

\* C5: the scan stops once semantic plus keyword results reach top_k: the
\* returned list never has more than top_k entries, the loop goes on only
\* below top_k, and the candidate that brought the count to top_k is the
\* last one examined.
C5_ScanStopsAtTopK ==
    /\ pc \in {"fetch_pool", "scan", "scan_done"} =>
            Len(semantic_results) + Len(keyword_results) <= top_k
    /\ pc = "scan" => Len(semantic_results) + Len(keyword_results) < top_k
    /\ pc = "returned" => Len(hits[1]) <= top_k
    /\ (pc \in {"scan_done", "returned"} /\ Len(keyword_results) >= 1
            /\ Len(semantic_results) + Len(keyword_results) = top_k) =>
            LET h == keyword_results[Len(keyword_results)]
                doc == potential_docs[1][scan_i]
            IN  /\ h.raw = doc.metadata.raw
                /\ h.source = doc.metadata.source
                /\ h.page = doc.metadata.page

\* the scan stopped at top_k with a fresh matching candidate still unexamined
C5_Witness ==
    /\ pc = "returned"
    /\ Len(keyword_results) >= 1
    /\ Len(hits[1]) = top_k
    /\ \E c \in (scan_i + 1)..Len(potential_docs[1]) :
         LET doc == potential_docs[1][c]
         IN  /\ RawHasQuery(doc.metadata.raw)
             /\ \A i \in DOMAIN hits[1] :
                    PairOf(hits[1][i]) # <<doc.metadata.source, doc.metadata.page>>

-----------------------------------------------------------------------------
(* Properties of /ask and /upload, checked under Spec                      *)

\* the last response is a successful /ask response
AskOk == response # None /\ "citations" \in DOMAIN response[1]

\* the stored source and page of hit h are those of a stored unit
IsStored(h) ==
    \E i \in DOMAIN collection :
        /\ collection[i].metadata.source = h.source
        /\ collection[i].metadata.page = h.page

\* str(page) of a stored page value
PageText(page) == IF page = None THEN <<"N", "o", "n", "e">> ELSE IntToStr(page[1])

\* C6 as stated: one citation per retrieved unit, in retrieval order, the
\* i-th being "<source> (page <page>)" of the i-th unit's stored source and
\* page values.
C6_CitationsOfStoredValues ==
    AskOk =>
        /\ Len(response[1].citations) = Len(hits[1])
        /\ \A i \in DOMAIN hits[1] :
              /\ IsStored(hits[1][i])
              /\ response[1].citations[i] =
                    hits[1][i].source[1] \o <<" ", "(", "p", "a", "g", "e", " ">>
                        \o PageText(hits[1][i].page) \o <<")">>

\* C6, amended: one citation per retrieved unit, in retrieval order, the
\* i-th being "<source> (page <page>)" of the i-th unit's stored source and
\* page, where a unit stored without a page number (or with page 0) is cited
\* as page -1 and a unit stored without a source name as "unknown".
C6_CitationsWithDefaults ==
    AskOk =>
        /\ Len(response[1].citations) = Len(hits[1])
        /\ \A i \in DOMAIN hits[1] :
              LET h == hits[1][i]
                  src == IF h.source = None \/ h.source = Some(<<>>)
                         THEN <<"u", "n", "k", "n", "o", "w", "n">> ELSE h.source[1]
                  pg == IF h.page = None \/ h.page = Some(0)
                        THEN <<"-", "1">> ELSE IntToStr(h.page[1])
              IN  /\ IsStored(h)
                  /\ response[1].citations[i] =
                        src \o <<" ", "(", "p", "a", "g", "e", " ">> \o pg \o <<")">>

\* an answer citing several units, one of them stored without page number
C6_Witness ==
    /\ AskOk
    /\ Len(hits[1]) >= 2
    /\ \E i \in DOMAIN hits[1] : hits[1][i].page = None
    /\ \E i \in DOMAIN hits[1] : hits[1][i].page # None

\* the images expected for the hits from position i on: one per hit whose
\* stored payload is a non-empty string, with that hit's source and page
RECURSIVE ExpectedImages(_, _)
ExpectedImages(hs, i) ==
    IF i > Len(hs) THEN << >>
    ELSE (IF hs[i].img_b64 # None /\ hs[i].img_b64 # Some(<<>>)
          THEN << [img_b64 |-> hs[i].img_b64[1], source |-> hs[i].source[1],
                   page |-> hs[i].page[1]] >>
          ELSE << >>)
         \o ExpectedImages(hs, i + 1)

\* C7: the images of a successful /ask response are exactly the retrieved
\* units that carry a non-empty base64 payload, in retrieval order, each with
\* that unit's source and page; a unit without payload contributes none.  The
\* stored units that carry a payload are the image units of ingestion.
C7_ImagesOfPayloads ==
    /\ \A i \in DOMAIN collection :
          LET md == collection[i].metadata
          IN  ("img_b64" \in DOMAIN md) <=> (md.type = "image")
    /\ AskOk =>
          /\ response[1].images = ExpectedImages(hits[1], 1)
          /\ \A i \in DOMAIN hits[1] : IsStored(hits[1][i])

\* an answer over an image unit and a unit without payload
C7_Witness ==
    /\ AskOk
    /\ Len(response[1].images) >= 1
    /\ Len(response[1].images) < Len(hits[1])

\* the ask handler took a step: it rejected the question or called
\* hybrid_retrieve
AskTaken ==
    /\ pc = "idle"
    /\ \/ pc' = "retrieve"
       \/ response' # None /\ response'[1].status = 400

\* the question holds nothing but whitespace
OnlyWhitespace(text) == \A i \in DOMAIN text : text[i] \in {" ", "\n", "\t"}

\* C9: a blank question is rejected with 400 "Empty question."; a non-blank
\* one is rejected with 400 "No PDFs indexed. POST /upload first." if and only
\* if no /upload has yet run to completion, and is otherwise handed to the
\* retriever; a rejected question calls neither retrieval nor the LLM; the
\* retriever, once set, is never unset.
C9_AskGuards ==
    /\ [][AskTaken =>
            /\ OnlyWhitespace(query') =>
                  /\ response' = Some([status |-> 400, detail |-> "Empty question."])
                  /\ pc' = "idle" /\ env_calls' = {}
            /\ (~OnlyWhitespace(query') /\ ~upload_completed) =>
                  /\ response' = Some([status |-> 400,
                                       detail |-> "No PDFs indexed. POST /upload first."])
                  /\ pc' = "idle" /\ env_calls' = {}
            /\ (~OnlyWhitespace(query') /\ upload_completed) =>
                  /\ pc' = "retrieve" /\ response' = None]_vars
    /\ [][retriever = "set" => retriever' = "set"]_vars
    /\ [](upload_completed <=> retriever = "set")
    /\ [](env_calls # {} => (retriever = "set" /\ ~OnlyWhitespace(query)))

\* a question rejected for want of a retriever after an /upload that ingested
\* its files but did not complete
C9_Witness ==
    /\ response = Some([status |-> 400,
                        detail |-> "No PDFs indexed. POST /upload first."])
    /\ Len(ingested) >= 1
    /\ ~upload_completed

RECURSIVE Flatten(_, _)
Flatten(ss, i) == IF i > Len(ss) THEN << >> ELSE ss[i] \o Flatten(ss, i + 1)

\* the last response is a successful /upload response
UploadOk == response # None /\ "chunks_indexed" \in DOMAIN response[1]

\* the errors of the /upload being served, or of the one that just completed
UploadErrors ==
    IF pc = "upload" THEN errors
    ELSE IF UploadOk THEN response[1].errors ELSE << >>

\* how often message e is in the list es
Count(es, e) == Cardinality({ i \in DOMAIN es : es[i] = e })

\* the files ingested so far whose name is f
FilesNamed(f) ==
    Cardinality({ j \in DOMAIN ingested : upload_files[j].filename = f })

\* C10 as stated: the collection holds exactly the units ingested from the
\* files of the most recent /upload, and a file whose name does not end in
\* ".pdf" contributes no unit and one "not a PDF" error.
C10_NameEndsInPdf ==
    /\ collection = Flatten(ingested, 1)
    /\ (pc = "upload" \/ UploadOk) =>
          \A i \in DOMAIN ingested :
              LET f == upload_files[i].filename
              IN  ~EndsWith(f, <<".", "p", "d", "f">>) =>
                      /\ ingested[i] = << >>
                      /\ Count(UploadErrors,
                               f \o <<":", " ", "n", "o", "t", " ", "a", " ",
                                      "P", "D", "F">>) = FilesNamed(f)

\* C10, amended: after any sequence of sequentially executed /upload
\* requests the collection holds exactly the units ingested from the files
\* of the most recent /upload that got as far as deleting the collection;
\* a file whose lower-cased name does not end in ".pdf" contributes no unit
\* and one "not a PDF" error, and every other file (".PDF" included) is
\* ingested and contributes no such error.
C10_LatestUploadOnly ==
    /\ collection = Flatten(ingested, 1)
    /\ (pc = "upload" \/ UploadOk) =>
          \A i \in DOMAIN ingested :
              LET f == upload_files[i].filename
                  e == f \o <<":", " ", "n", "o", "t", " ", "a", " ", "P", "D", "F">>
              IN  IF EndsWith(Lower(f), <<".", "p", "d", "f">>)
                  THEN Count(UploadErrors, e) = 0
                  ELSE /\ ingested[i] = << >>
                       /\ Count(UploadErrors, e) = FilesNamed(f)

\* a second /upload, after one that completed, has ingested a ".PDF" file and
\* a file that is no PDF
C10_Witness ==
    /\ pc = "upload"
    /\ retriever = "set"
    /\ Len(files) = 0
    /\ \E i, j \in DOMAIN ingested :
         /\ upload_files[i].filename = <<"B", ".", "P", "D", "F">>
         /\ Len(ingested[i]) >= 1
         /\ upload_files[j].filename = <<"n", ".", "t", "x", "t">>

-----------------------------------------------------------------------------
(* Properties of the chunking policy, checked under SpecSplit              *)

\* C8: the chunk overlap is non-negative and strictly less than the chunk
\* size, so that every chunk of a narrative text starts after the previous
\* one and none is longer than the chunk size.
C8_OverlapBelowChunkSize ==
    /\ chunk_overlap >= 0
    /\ chunk_overlap < chunk_size
    /\ \A i \in DOMAIN split_chunks :
          /\ split_chunks[i].len <= chunk_size
          /\ i > 1 => split_chunks[i].start > split_chunks[i - 1].start
          /\ i > 1 => split_chunks[i].start =
                        split_chunks[i - 1].start + split_chunks[i - 1].len
                            - chunk_overlap

\* a text split into three chunks
C8_Witness ==
    /\ pc = "split_done"
    /\ Len(split_chunks) = 3
    /\ split_chunks[3].start + split_chunks[3].len = Len(split_text)

-----------------------------------------------------------------------------
(* Properties of ingest_pdf_bytes, checked under SpecIngest                *)

\* the units of a file the code does not skip, when advanced_extract_images
\* returned its first n page images: the pages and the images with text,
\* the chunks of the narrative elements, the tables
NonEmptyUnits(file, n) ==
    Cardinality({ i \in DOMAIN file.pages : Strip(file.pages[i]) # <<>> })
    + Len(ChunkUnits(file, 1))
    + Cardinality({ i \in DOMAIN file.elements :
                      MdGetD(file.elements[i].metadata, "element_type", "") = "Table" })
    + Cardinality({ i \in 1..n : Strip(file.ocr[i]) # <<>> })

\* a unit that fails to be summarised adds exactly one error and no
\* summary, and the units after it are still to be processed
C11_OneErrorPerFailure ==
    [][(pc = "summarise" /\ stage_units # <<>> /\ summaries' = summaries
            /\ <<stage_units, ingest_errors>>' # <<stage_units, ingest_errors>>)
        => /\ Len(ingest_errors') = Len(ingest_errors) + 1
           /\ SubSeq(ingest_errors', 1, Len(ingest_errors)) = ingest_errors
           /\ stage_units' = Tail(stage_units)
           /\ pc' = "summarise"]_vars

\* the returned count is the number of documents the call added
C11_CountIsAdded ==
    [][(ingest_result = None /\ ingest_result' # None)
        => /\ ingest_result'[1].count = Len(collection') - Len(collection)
           /\ SubSeq(collection', 1, Len(collection)) = collection]_vars

\* without a loader-level exception, count + errors = non-empty units
C11_CountPlusErrors ==
    (pc = "ingest_returned" /\ ~loader_raised)
        => ingest_result[1].count + Len(ingest_result[1].errors)
             = NonEmptyUnits(ingest_file[1], rendered[1])

\* the call is over, by a return or by an exception
IngestOver == pc \in {"ingest_returned", "ingest_raised"}

\* the temporary file is gone when the call is over
C11_TempFileRemoved == IngestOver => ~temp_path_exists

\* C11: in ingest_pdf_bytes a unit that fails to be summarised adds exactly
\* one entry to the error list and the remaining units are still processed;
\* the returned count is the number of documents the call added to the
\* collection; without a loader-level exception count + number of errors is
\* the number of non-empty units extracted; and the temporary file is
\* removed on every path.
C11_IngestErrorHandling ==
    /\ C11_OneErrorPerFailure
    /\ C11_CountIsAdded
    /\ [](C11_CountPlusErrors)
    /\ [](C11_TempFileRemoved)

=============================================================================
